---- MODULE Spec2Model ----
(***************************************************************************)
(* trellobackup (src/main.go): a sequential command-line backup.  One run  *)
(* authenticates, queries the username and the boards, and for every open  *)
(* board saves the JSON export and downloads the assets it references.     *)
(* Strings are sequences of one-character strings, so that the regular     *)
(* expressions, the URL parsing and the file names are computed as the     *)
(* code computes them.  The HTTP server and the file system are the        *)
(* environment: every call's outcome is chosen nondeterministically.       *)
(***************************************************************************)
EXTENDS Integers, Sequences, FiniteSets, TLC

(***************************************************************************)
(* Bounds of the model.                                                    *)
(***************************************************************************)
\* boards in the list the server returns
MaxBoards == 2
\* runs of the program, one after the other, on the same disk
MaxRuns == 2
\* boards in the list when the program is run more than once
MaxRunBoards == 1

(***************************************************************************)
(* Regular expressions (package regexp), as far as main.go uses them:      *)
(* literals, an optional literal, '.', a repeated character class and one  *)
(* capture group.  Matching is leftmost-first and greedy with              *)
(* backtracking, which is what Go's matcher returns for these patterns.    *)
(***************************************************************************)
\* a literal string, an optional character, '.', a repeated class, ( and )
Lits(s) == <<[k |-> "lit", c |-> s, set |-> {}, neg |-> FALSE]>>
Opt(c) == [k |-> "opt", c |-> <<c>>, set |-> {}, neg |-> FALSE]
AnyChar == [k |-> "any", c |-> <<>>, set |-> {}, neg |-> FALSE]
Plus(set, neg) == [k |-> "plus", c |-> <<>>, set |-> set, neg |-> neg]
GroupOpen == [k |-> "open", c |-> <<>>, set |-> {}, neg |-> FALSE]
GroupClose == [k |-> "close", c |-> <<>>, set |-> {}, neg |-> FALSE]

\* the element of a set of one element
Only(S) == CHOOSE x \in S : TRUE

\* the least element of a non-empty set of numbers
Least(S) == CHOOSE x \in S : \A y \in S : x <= y

NoMatch == <<0, 0, 0>>

InClass(e, c) == IF e.neg THEN c \notin e.set ELSE c \in e.set

\* the length of the longest run of class characters of s from position i
RunLen(e, s, i) ==
    Least({j \in i..(Len(s) + 1) : j > Len(s) \/ ~InClass(e, s[j])}) - i

RECURSIVE Match(_, _, _, _, _, _)
RECURSIVE TryPlus(_, _, _, _, _, _, _)
\* Match p[k..] on s from position i: <<position after the match, first and
\* last position of the capture group>>, or NoMatch.
Match(p, k, s, i, gs, ge) ==
    IF k > Len(p) THEN <<i, gs, ge>>
    ELSE LET e == p[k] IN
         CASE e.k = "lit" ->
                IF i + Len(e.c) - 1 <= Len(s) /\ SubSeq(s, i, i + Len(e.c) - 1) = e.c
                THEN Only({Match(p, k1, s, i1, gs, ge) :
                             k1 \in {k + 1}, i1 \in {i + Len(e.c)}})
                ELSE NoMatch
           [] e.k = "opt" ->
                Only({IF r # NoMatch THEN r
                      ELSE Only({Match(p, k1, s, i, gs, ge) : k1 \in {k + 1}}) :
                        r \in {IF i <= Len(s) /\ s[i] = e.c[1]
                               THEN Only({Match(p, k1, s, i1, gs, ge) :
                                            k1 \in {k + 1}, i1 \in {i + 1}})
                               ELSE NoMatch}})
           [] e.k = "any" ->
                IF i <= Len(s) /\ s[i] # "\n"
                THEN Only({Match(p, k1, s, i1, gs, ge) : k1 \in {k + 1}, i1 \in {i + 1}})
                ELSE NoMatch
           [] e.k = "plus" ->
                Only({TryPlus(p, k, s, i, n, gs, ge) : n \in {RunLen(e, s, i)}})
           [] e.k = "open" -> Only({Match(p, k1, s, i, i, ge) : k1 \in {k + 1}})
           [] e.k = "close" ->
                Only({Match(p, k1, s, i, gs, ge1) : k1 \in {k + 1}, ge1 \in {i - 1}})

\* a repeated class takes n characters, or fewer when the rest does not match
TryPlus(p, k, s, i, n, gs, ge) ==
    IF n = 0 THEN NoMatch
    ELSE Only({IF r # NoMatch THEN r
               ELSE Only({TryPlus(p, k, s, i, n1, gs, ge) : n1 \in {n - 1}}) :
                 r \in {Only({Match(p, k1, s, i1, gs, ge) :
                                k1 \in {k + 1}, i1 \in {i + n}})}})

RECURSIVE FindAllFrom(_, _, _)
\* the non-overlapping matches of p in s from position i, left to right:
\* each <<the whole match, the capture group>>
FindAllFrom(p, s, i) ==
    LET starts == {j \in i..Len(s) : Match(p, 1, s, j, 0, 0) # NoMatch}
    IN IF starts = {} THEN <<>>
       ELSE Only(UNION {
                {<<<<SubSeq(s, j, r[1] - 1), SubSeq(s, r[2], r[3])>>>>
                     \o FindAllFrom(p, s, r[1]) :
                  r \in {Match(p, 1, s, j, 0, 0)}} :
                j \in {Least(starts)}})

FindAllStringSubmatch(p, s) ==
    Only({FindAllFrom(pp, ss, 1) : pp \in {p}, ss \in {s}})

RECURSIVE ReplaceFrom(_, _, _, _)
ReplaceFrom(p, s, repl, i) ==
    IF i > Len(s) THEN <<>>
    ELSE LET r == Match(p, 1, s, i, 0, 0)
         IN IF r # NoMatch
            THEN repl \o ReplaceFrom(p, s, repl, r[1])
            ELSE <<s[i]>> \o ReplaceFrom(p, s, repl, i + 1)

ReplaceAllString(p, s, repl) == ReplaceFrom(p, s, repl, 1)

(***************************************************************************)
(* The patterns of main.go.                                                *)
(***************************************************************************)
Alnum == {"a", "b", "c", "d", "e", "f", "g", "h", "i", "j", "k", "l", "m", "n", "o", "p", "q",
            "r", "s", "t", "u", "v", "w", "x", "y", "z", "A", "B", "C", "D", "E", "F", "G",
            "H", "I", "J", "K", "L", "M", "N", "O", "P", "Q", "R", "S", "T", "U", "V", "W",
            "X", "Y", "Z", "0", "1", "2", "3", "4", "5", "6", "7", "8", "9"}

\* dsc="([a-zA-Z0-9]+)"
DscPattern ==
    Lits(<<"d", "s", "c", "=", "\"">>) \o <<GroupOpen, Plus(Alnum, FALSE),
                GroupClose>> \o Lits(<<"\"">>)

\* "url": ?"(https?://trello-<t>.s3.amazonaws.com/[^"]+)"    (the dots are '.')
AssetPattern(t) ==
    Lits(<<"\"", "u", "r", "l", "\"", ":">>) \o <<Opt(" ")>> \o Lits(<<"\"">>) \o <<GroupOpen>>
    \o Lits(<<"h", "t", "t", "p">>) \o <<Opt("s")>> \o Lits(<<":", "/", "/", "t", "r", "e",
                "l", "l", "o", "-">>) \o Lits(t)
    \o <<AnyChar>> \o Lits(<<"s", "3">>) \o <<AnyChar>> \o Lits(<<"a", "m", "a", "z", "o", "n",
                "a", "w", "s">>)
    \o <<AnyChar>> \o Lits(<<"c", "o", "m", "/">>) \o <<Plus({"\""}, TRUE), GroupClose>>
    \o Lits(<<"\"">>)

\* [^a-zA-Z0-9_)(-]+
NamePattern == <<Plus(Alnum \cup {"_", ")", "(", "-"}, TRUE)>>

\* the kinds the other way round
KindsReversed == <<<<"b", "a", "c", "k", "g", "r", "o", "u", "n", "d", "s">>, <<"a", "t", "t",
            "a", "c", "h", "m", "e", "n", "t", "s">>>>

\* line 134
Kinds == <<<<"a", "t", "t", "a", "c", "h", "m", "e", "n", "t", "s">>, <<"b", "a", "c", "k",
            "g", "r", "o", "u", "n", "d", "s">>>>

\* the asset URLs of one kind in an export, in document order
ExtractUrls(buf, t) ==
    LET ms == FindAllStringSubmatch(AssetPattern(t), buf)
    IN [j \in 1..Len(ms) |-> ms[j][2]]

\* a pattern that forgets the parentheses: [^a-zA-Z0-9_-]+
SanitizeNameNoParens(name) ==
    ReplaceAllString(<<Plus(Alnum \cup {"_", "-"}, TRUE)>>, name, <<>>)

\* the board name as it goes into the export's file name
SanitizeName(name) == ReplaceAllString(NamePattern, name, <<>>)

(***************************************************************************)
(* url.Parse, as far as the path of an http(s) URL goes: the fragment is   *)
(* cut at the first '#', the query at the first '?', the authority ends at *)
(* the first '/', and the path is percent-decoded.  Hosts with user info,  *)
(* a port or an IPv6 literal are outside the inputs of this model.         *)
(***************************************************************************)
HexDigits == {"0", "1", "2", "3", "4", "5", "6", "7", "8", "9", "a", "b", "c", "d", "e", "f",
            "A", "B", "C", "D", "E", "F"}
ValidHostChars ==
    Alnum \cup {"-", "_", ".", "~", "!", "$", "&", "'", "(", ")", "*", "+", ",", ";", "=", "<", ">"}

\* the first position >= i of s holding a character of cs, or Len(s) + 1
IndexFrom(s, cs, i) ==
    Least({j \in i..(Len(s) + 1) : j > Len(s) \/ s[j] \in cs})

CutBefore(s, cs) == SubSeq(s, 1, IndexFrom(s, cs, 1) - 1)

\* the byte a valid escape %xy stands for
Unhex(x, y) ==
    CASE <<x, y>> \in {<<"2", "F">>, <<"2", "f">>} -> "/"
      [] <<x, y>> \in {<<"5", "F">>, <<"5", "f">>} -> "_"
      [] <<x, y>> = <<"2", "0">> -> " "
      [] OTHER -> "%" \o x \o y

RECURSIVE ValidEscapes(_, _)
ValidEscapes(s, i) ==
    IF i > Len(s) THEN TRUE
    ELSE IF s[i] = "%"
         THEN /\ i + 2 <= Len(s)
              /\ s[i + 1] \in HexDigits
              /\ s[i + 2] \in HexDigits
              /\ ValidEscapes(s, i + 3)
         ELSE ValidEscapes(s, i + 1)

RECURSIVE Unescape(_, _)
Unescape(s, i) ==
    IF i > Len(s) THEN <<>>
    ELSE IF s[i] = "%"
         THEN <<Unhex(s[i + 1], s[i + 2])>> \o Unescape(s, i + 3)
         ELSE <<s[i]>> \o Unescape(s, i + 1)

\* [ok, path]: u.Path of url.Parse(u), ok = FALSE for the URLs it rejects
ParseURL(u) ==
    Only(UNION {UNION {UNION {
        \* rest starts with "//": the authority runs to the next '/'
        {IF \A i \in 1..Len(host) : host[i] \in ValidHostChars
         THEN IF ValidEscapes(raw, 1)
              THEN [ok |-> TRUE, path |-> Unescape(raw, 1)]
              ELSE [ok |-> FALSE, path |-> <<>>]
         ELSE [ok |-> FALSE, path |-> <<>>] :
           host \in {SubSeq(rest, 3, IndexFrom(rest, {"/"}, 3) - 1)},
           raw \in {SubSeq(rest, IndexFrom(rest, {"/"}, 3), Len(rest))}} :
        rest \in {CutBefore(rest0, {"?"})}} :
        rest0 \in {SubSeq(noFrag, IndexFrom(noFrag, {":"}, 1) + 1, Len(noFrag))}} :
        noFrag \in {CutBefore(u, {"#"})}})

\* strings.Replace(s, "/", "_", -1)
ReplaceSlashes(s) == [i \in 1..Len(s) |-> IF s[i] = "/" THEN "_" ELSE s[i]]

\* filepath.Join(t, name) for a name without separators: t/name, or t alone
\* when the name is empty
JoinPath(t, name) == IF name = <<>> THEN t ELSE t \o <<"/">> \o name

\* the local file of an asset URL of kind t
LocalFile(t, path) == JoinPath(t, ReplaceSlashes(path))

(***************************************************************************)
(* time.Now().Format("2006-01-02_15-04"): the clock counts seconds from    *)
(* 2006-01-02 15:00:00 local time and stays within that day.               *)
(***************************************************************************)
Digits == <<"0", "1", "2", "3", "4", "5", "6", "7", "8", "9">>
TwoDigits(n) == <<Digits[(n \div 10) + 1], Digits[(n % 10) + 1]>>

\* a layout that stops at the hour: "2006-01-02_15"
FormatTimeHourOnly(now) == <<"2", "0", "0", "6", "-", "0", "1", "-", "0", "2",
            "_">> \o TwoDigits(15 + (now \div 3600))

FormatTime(now) ==
    <<"2", "0", "0", "6", "-", "0", "1", "-", "0", "2",
                "_">> \o TwoDigits(15 + (now \div 3600)) \o <<"-">>
    \o TwoDigits((now \div 60) % 60)

\* fmt.Sprintf("trello_%s_%s_%s_%s.json", time, username, id, sanitized name)
ExportFileName(now, user, id, name) ==
    <<"t", "r", "e", "l", "l", "o", "_">> \o FormatTime(now) \o <<"_">> \o user \o <<"_">> \o id
    \o <<"_">> \o SanitizeName(name) \o <<".", "j", "s", "o", "n">>

(***************************************************************************)
(* The environment: what the server holds and what it may answer.          *)
(***************************************************************************)
\* One "url" field of an export: the host is the storage host of a kind
\* ("att", "bg") or another host ("other": trello-attachments-s3...), sp is
\* the number of spaces after the colon.
UrlField(host, sp, path) == [host |-> host, sp |-> sp, path |-> path]

HostName(host) ==
    CASE host = "att" -> <<"t", "r", "e", "l", "l", "o", "-", "a", "t", "t", "a", "c", "h",
                "m", "e", "n", "t", "s", ".", "s", "3", ".", "a", "m", "a", "z", "o", "n", "a",
                "w", "s", ".", "c", "o", "m">>
      [] host = "bg" -> <<"t", "r", "e", "l", "l", "o", "-", "b", "a", "c", "k", "g", "r", "o",
                  "u", "n", "d", "s", ".", "s", "3", ".", "a", "m", "a", "z", "o", "n", "a",
                  "w", "s", ".", "c", "o", "m">>
      [] host = "other" -> <<"t", "r", "e", "l", "l", "o", "-", "a", "t", "t", "a", "c", "h",
                  "m", "e", "n", "t", "s", "-", "s", "3", ".", "a", "m", "a", "z", "o", "n",
                  "a", "w", "s", ".", "c", "o", "m">>

FieldUrl(f) == <<"h", "t", "t", "p", "s", ":", "/", "/">> \o HostName(f.host) \o f.path

RECURSIVE Spaces(_)
Spaces(n) == IF n = 0 THEN <<>> ELSE <<" ">> \o Spaces(n - 1)

RECURSIVE RenderFields(_)
RenderFields(fs) ==
    IF fs = <<>> THEN <<>>
    ELSE <<"{", "\"", "u", "r", "l", "\"",
                ":">> \o Spaces(Head(fs).sp) \o <<"\"">> \o FieldUrl(Head(fs)) \o <<"\"", "}">>
         \o (IF Tail(fs) = <<>> THEN <<>> ELSE <<",">> \o RenderFields(Tail(fs)))

\* the export of a board as the server sends it
RenderExport(fs) == <<"{", "\"", "i", "d", "\"", ":", "\"", "x", "\"", ",", "\"", "a", "\"",
            ":", "[">> \o RenderFields(fs) \o <<"]", "}">>

\* The boards the server may list.  Ids are unique.
BoardPool ==
    { [id |-> <<"b", "1">>, name |-> <<"M", "y", "/", "B", "o", "a", "r", "d", ":", "2">>,
                closed |-> FALSE, shortURL |-> "u1",
       doc |-> <<UrlField("att", 1, <<"/", "a", "/", "b">>), UrlField("bg", 0, <<"/", "c">>),
                 UrlField("att", 0, <<"/", "a", "_", "b">>)>>],
      [id |-> <<"b", "2">>, name |-> <<"(", "a", "-", "b", ")", "_", "c">>, closed |-> FALSE,
                  shortURL |-> "u2",
       doc |-> <<UrlField("att", 0, <<"/", "a", "/", "b">>), UrlField("att", 0, <<"/", "a",
                   "/", "b">>)>>],
      [id |-> <<"b", "3">>, name |-> <<":", ":", "x", ":", ":", "y">>, closed |-> TRUE,
                  shortURL |-> "u3",
       doc |-> <<UrlField("att", 0, <<"/", "z">>)>>],
      [id |-> <<"b", "4">>, name |-> <<"O", "k">>, closed |-> FALSE, shortURL |-> "u4",
       doc |-> <<UrlField("other", 0, <<"/", "h">>), UrlField("bg", 0, <<"/", "a", "%", "/",
                   "b">>)>>] }

\* the lists of at most MaxBoards different boards
BoardLists ==
    { l \in UNION { [1..n -> BoardPool] : n \in 0..MaxBoards } :
        \A i, j \in 1..Len(l) : i # j => l[i] # l[j] }

\* GET <shortURL>.json
ExportOf(shortURL) ==
    RenderExport((CHOOSE b \in BoardPool : b.shortURL = shortURL).doc)

\* os.Args[1:]
ArgLists == { <<>>, <<"tok">>, <<"user", "pw">>, <<"user", "pw", "SECRET">>,
              <<"user", "pw", "">> }

\* bodies of the login page
LoginPages == { <<"<", "a", " ", "d", "s", "c", "=", "\"", "a", "b", "1", "\"", ">">>, <<"<",
            "a", " ", "d", "s", "c", "=", "\"", "\"", ">">>, <<"<", "a", " ", "d", "s", "c",
            "=", "\"", "x", "-", "y", "\"", ">">> }

\* the error field of an authentication response
AuthErrors == { <<>>, <<"T", "W", "O", "_", "F", "A", "C", "T", "O", "R", "_", "M", "I", "S",
            "S", "I", "N", "G">>, <<"I", "N", "V", "A", "L", "I", "D", "_", "P", "A", "S", "S",
            "W", "O", "R", "D">> }

Usernames == { <<"b", "o", "b">> }

\* seconds that may pass before the clock is read
Elapsed == {0, 45}

VARIABLES
    args,           \* os.Args[1:]
    world,          \* the boards list the server holds
    run,            \* the number of this run, from 1
    exits,          \* the exit codes of the finished runs
    hist,           \* the asset requests and file writes of the finished runs
    pc,             \* the position in main
    exit,           \* the exit code, -1 while running
    jar,            \* the cookies set by main: c.Jar
    token,          \* the login token
    authentication, \* the authentication code
    username,
    boards,         \* the decoded boards list
    bi,             \* the index of the board of the loop of line 101
    buf,            \* the export of that board
    ti,             \* the index of the kind of the loop of line 134
    urls,           \* the matches of the loop of line 138
    mi,             \* the index of the match
    files,          \* the disk: path -> content
    dirs,           \* the disk: directories
    clock,          \* seconds since 2006-01-02 15:00:00
    resp,           \* what the last network or file system call returned
    log             \* the network requests and file system calls of this run

vars == <<args, world, run, exits, hist, pc, exit, jar, token, authentication,
          username, boards, bi, buf, ti, urls, mi, files, dirs, clock, resp, log>>

proc == <<jar, token, authentication, username, boards, bi, buf, ti, urls, mi>>
disk == <<files, dirs>>
input == <<args, world>>
past == <<run, exits, hist>>

auth == <<token, authentication>>
loop == <<boards, bi, buf, ti, urls, mi>>

\* A network request or a writing file system call, as the environment sees
\* it: the run, the board of the loop (0 before it), the clock, and whether
\* the call returned without an error.
Event(op, what, arg, ok) ==
    [run |-> run, bi |-> bi, at |-> clock, op |-> op, what |-> what,
     arg |-> arg, ok |-> ok]

\* What a call returns: k is "transport" for a request that failed, "http"
\* for a response (status, body), "read" for a response whose body cannot
\* be read; for a file system call "ok" or "err".
Response(k, status, body) == [k |-> k, status |-> status, body |-> body]
Returned(what, r) ==
    [what |-> what, k |-> r.k, status |-> r.status, body |-> r.body]
NoResult == Returned("none", Response("none", 0, <<>>))

\* a JSON body that decodes to val, and a body that does not decode
Json(val) == [ok |-> TRUE, val |-> val]
NotJson == [ok |-> FALSE, val |-> <<>>]

Init ==
    /\ args \in ArgLists
    /\ world \in BoardLists
    /\ run = 1
    /\ exits = <<>>
    /\ hist = <<>>
    /\ pc = "start"
    /\ exit = -1
    /\ jar = {}
    /\ token = <<>>
    /\ authentication = <<>>
    /\ username = <<>>
    /\ boards = <<>>
    /\ bi = 0
    /\ buf = <<>>
    /\ ti = 0
    /\ urls = <<>>
    /\ mi = 0
    /\ files = <<>>
    /\ dirs = {}
    /\ clock = 0
    /\ resp = NoResult
    /\ log = <<>>

\* os.Exit(code)
Exit(code) == pc' = "exit" /\ exit' = code

(***************************************************************************)
(* main, lines 22-85: the arguments and the two ways to log in.            *)
(***************************************************************************)
\* a switch that sends one argument to the login with credentials
AfterArgsNoCookie(n) == IF n \notin {1, 2, 3} THEN "usage" ELSE "credentials"

\* lines 22-26 and the switch of line 31
AfterArgs(n) ==
    IF n \notin {1, 2, 3} THEN "usage"
    ELSE IF n = 1 THEN "cookie" ELSE "credentials"

\* lines 50-54
Totp == IF Len(args) = 3 THEN args[3] ELSE ""

Start ==
    /\ pc = "start"
    /\ CASE AfterArgs(Len(args)) = "usage" -> Exit(1) /\ jar' = jar
         [] AfterArgs(Len(args)) = "cookie" ->
              /\ jar' = {[name |-> "token", value |-> args[1]]}
              /\ pc' = "getUsername"
              /\ exit' = exit
         [] OTHER -> jar' = jar /\ pc' = "getLoginToken" /\ exit' = exit
    /\ UNCHANGED <<input, past, auth, username, loop, disk, clock, resp, log>>

LoginResponses ==
    {Response("transport", 0, <<>>), Response("read", 200, <<>>)}
    \cup {Response("http", 200, p) : p \in LoginPages}

\* a getLoginToken that returns without an error when the page has no token
getLoginTokenNoCheck(r) ==
    IF r.k # "http" THEN [token |-> <<>>, err |-> TRUE]
    ELSE LET ms == FindAllStringSubmatch(DscPattern, r.body)
         IN IF ms = <<>> THEN [token |-> <<>>, err |-> FALSE]
            ELSE [token |-> ms[1][2], err |-> FALSE]

\* getLoginToken: [token, err]
getLoginToken(r) ==
    IF r.k # "http" THEN [token |-> <<>>, err |-> TRUE]
    ELSE LET ms == FindAllStringSubmatch(DscPattern, r.body)
         IN IF ms = <<>> THEN [token |-> <<>>, err |-> TRUE]
            ELSE [token |-> ms[1][2], err |-> FALSE]

\* lines 56-61
FetchToken ==
    /\ pc = "getLoginToken"
    /\ \E r \in LoginResponses :
         LET got == getLoginToken(r) IN
         /\ resp' = Returned("login", r)
         /\ log' = Append(log, Event("GET", "login", <<>>, r.k # "transport"))
         /\ IF got.err
            THEN Exit(1) /\ token' = token
            ELSE token' = got.token /\ pc' = "authenticate" /\ exit' = exit
    /\ UNCHANGED <<input, past, jar, authentication, username, loop, disk, clock>>

\* gotp.NewDefaultTOTP(secret).Now(): a code of the secret and the 30 s step
TotpNow(secret, now) == <<secret, now \div 30>>

\* a form that never carries the one-time code
AuthParamsNoCode(user, password, totpSecret, now) ==
    [user |-> user, password |-> password, method |-> "password", totp |-> <<>>]

\* lines 201-208: the form of the authentication request
AuthParams(user, password, totpSecret, now) ==
    [user |-> user, password |-> password, method |-> "password",
     totp |-> IF totpSecret # "" THEN TotpNow(totpSecret, now) ELSE <<>>]

AuthResponses ==
    {Response("transport", 0, <<>>), Response("http", 200, NotJson),
     Response("http", 200, Json([code |-> <<"c", "1">>, error |-> <<>>])),
     Response("http", 500, Json([code |-> <<>>, error |-> <<>>]))}
    \cup {Response("http", 200, Json([code |-> <<>>, error |-> e])) :
            e \in AuthErrors \ {<<>>}}

\* strings.Contains
Contains(s, sub) ==
    \E i \in 1..(Len(s) - Len(sub) + 1) : SubSeq(s, i, i + Len(sub) - 1) = sub

\* lines 210-222: [code, err], err the error's text, <<>> for nil
getAuthentication(r) ==
    IF r.k = "transport"
    THEN [code |-> <<>>, err |-> <<"c", "o", "u", "l", "d", " ", "n", "o", "t", " ", "s", "u",
                "b", "m", "i", "t", " ", "l", "o", "g", "i", "n", " ", "i", "n", "f", "o">>]
    ELSE IF ~r.body.ok
         THEN [code |-> <<>>, err |-> <<"d", "e", "c", "o", "d", "e", " ", "j", "s", "o", "n">>]
         ELSE IF r.body.val.error # <<>>
              THEN [code |-> <<>>, err |-> <<"a", "p", "i", " ", "e", "r", "r", "o", "r", ":",
                          " ">> \o r.body.val.error]
              ELSE [code |-> r.body.val.code, err |-> <<>>]

\* line 65
SecondFactorMissing(err) == err # <<>> /\ Contains(err, <<"T", "W", "O", "_", "F", "A", "C",
            "T", "O", "R", "_", "M", "I", "S", "S", "I", "N", "G">>)

\* main without the check of line 66: it always asks again
AfterAuthenticationNoCheck(err, totp) ==
    IF SecondFactorMissing(err) THEN "authenticate2"
    ELSE IF err # <<>> THEN "exit" ELSE "updateSession"

\* lines 65-75: where main goes with the error of the first request
AfterAuthentication(err, totp) ==
    IF SecondFactorMissing(err)
    THEN IF totp = "" THEN "exit" ELSE "authenticate2"
    ELSE IF err # <<>> THEN "exit" ELSE "updateSession"

\* lines 64-75: the first authentication request
Authenticate ==
    /\ pc = "authenticate"
    /\ \E r \in AuthResponses :
         LET got == getAuthentication(r) IN
         /\ resp' = Returned("auth", r)
         /\ log' = Append(log, Event("POST", "auth",
                                     AuthParams(args[1], args[2], "", clock),
                                     r.k # "transport"))
         /\ IF AfterAuthentication(got.err, Totp) = "exit"
            THEN Exit(1)
            ELSE pc' = AfterAuthentication(got.err, Totp) /\ exit' = exit
         /\ authentication' = got.code
    /\ UNCHANGED <<input, past, jar, token, username, loop, disk, clock>>

\* lines 70-75: the second authentication request, with the one-time code
AuthenticateTotp ==
    /\ pc = "authenticate2"
    /\ \E r \in AuthResponses :
         LET got == getAuthentication(r) IN
         /\ resp' = Returned("auth", r)
         /\ log' = Append(log, Event("POST", "auth",
                                     AuthParams(args[1], args[2], Totp, clock),
                                     r.k # "transport"))
         /\ authentication' = got.code
         /\ IF got.err # <<>>
            THEN Exit(1)
            ELSE pc' = "updateSession" /\ exit' = exit
    /\ UNCHANGED <<input, past, jar, token, username, loop, disk, clock>>

SessionResponses ==
    {Response("transport", 0, <<>>), Response("http", 200, <<>>),
     Response("http", 500, <<>>)}

\* an updateSession that drops the error of the request
updateSessionNoError(r) == FALSE

\* an updateSession that takes a status other than 200 for an error
updateSessionStatus(r) == r.k = "transport" \/ r.status # 200

\* lines 225-235: the error of updateSession
updateSession(r) == r.k = "transport"

\* lines 77-82
UpdateSession ==
    /\ pc = "updateSession"
    /\ \E r \in SessionResponses :
         /\ resp' = Returned("session", r)
         /\ log' = Append(log, Event("POST", "session",
                                     [authentication |-> authentication,
                                      dsc |-> token],
                                     r.k # "transport"))
         /\ IF updateSession(r)
            THEN Exit(1)
            ELSE pc' = "getUsername" /\ exit' = exit
    /\ UNCHANGED <<input, past, jar, auth, username, loop, disk, clock>>

(***************************************************************************)
(* main, lines 87-99: the username and the boards.                         *)
(***************************************************************************)
UsernameResponses ==
    {Response("transport", 0, <<>>), Response("http", 401, NotJson),
     Response("http", 200, NotJson)}
    \cup {Response("http", st, Json([username |-> u])) :
            st \in {200, 401}, u \in Usernames}

\* a getUsername that returns no error, and no name, when the request failed
getUsernameNoError(r) ==
    IF r.k = "transport" THEN [username |-> <<>>, err |-> FALSE]
    ELSE IF r.status # 200 THEN [username |-> <<>>, err |-> TRUE]
    ELSE IF ~r.body.ok THEN [username |-> <<>>, err |-> TRUE]
    ELSE [username |-> r.body.val.username, err |-> FALSE]

\* lines 237-252: [username, err]
getUsername(r) ==
    IF r.k = "transport" THEN [username |-> <<>>, err |-> TRUE]
    ELSE IF r.status # 200 THEN [username |-> <<>>, err |-> TRUE]
    ELSE IF ~r.body.ok THEN [username |-> <<>>, err |-> TRUE]
    ELSE [username |-> r.body.val.username, err |-> FALSE]

\* lines 87-92
QueryUsername ==
    /\ pc = "getUsername"
    /\ \E r \in UsernameResponses :
         LET got == getUsername(r) IN
         /\ resp' = Returned("username", r)
         /\ log' = Append(log, Event("GET", "username", <<>>, r.k # "transport"))
         /\ IF got.err
            THEN Exit(1) /\ username' = username
            ELSE username' = got.username /\ pc' = "getBoards" /\ exit' = exit
    /\ UNCHANGED <<input, past, jar, auth, loop, disk, clock>>

\* the fields of a board that getBoards decodes
Decoded(b) ==
    [ShortURL |-> b.shortURL, ID |-> b.id, Name |-> b.name, Closed |-> b.closed]

BoardsResponses ==
    {Response("transport", 0, <<>>)}
    \cup {Response("http", st, NotJson) : st \in {200, 500}}
    \cup {Response("http", st, Json([i \in 1..Len(world) |-> Decoded(world[i])])) :
            st \in {200, 500}}

\* lines 254-268: [boards, err]
getBoards(r) ==
    IF r.k = "transport" THEN [boards |-> <<>>, err |-> TRUE]
    ELSE IF ~r.body.ok THEN [boards |-> <<>>, err |-> TRUE]
    ELSE [boards |-> r.body.val, err |-> FALSE]

\* lines 94-99
QueryBoards ==
    /\ pc = "getBoards"
    /\ \E r \in BoardsResponses :
         LET got == getBoards(r) IN
         /\ resp' = Returned("boards", r)
         /\ log' = Append(log, Event("GET", "boards", <<>>, r.k # "transport"))
         /\ IF got.err
            THEN Exit(1) /\ UNCHANGED <<boards, bi>>
            ELSE /\ boards' = got.boards
                 /\ bi' = 1
                 /\ pc' = "board"
                 /\ exit' = exit
    /\ UNCHANGED <<input, past, jar, auth, username, buf, ti, urls, mi, disk, clock>>

(***************************************************************************)
(* main, lines 101-179: the boards and their assets.                       *)
(***************************************************************************)
\* a loop without the check of line 102
IsClosedNever(board) == FALSE

\* line 102
IsClosed(board) == board.Closed

\* the loop of line 101 is over: lines 177-178
BoardsDone ==
    /\ pc = "board"
    /\ bi > Len(boards)
    /\ Exit(0)
    /\ UNCHANGED <<input, past, jar, auth, username, loop, disk, clock, resp, log>>

\* lines 102-105
SkipClosed ==
    /\ pc = "board"
    /\ bi <= Len(boards)
    /\ IsClosed(boards[bi])
    /\ bi' = bi + 1
    /\ UNCHANGED <<input, past, pc, exit, jar, auth, username, boards, buf, ti,
                   urls, mi, disk, clock, resp, log>>

ExportResponses(shortURL) ==
    {Response("transport", 0, <<>>), Response("read", 200, <<>>),
     Response("http", 200, ExportOf(shortURL))}

\* lines 107-120
ExportBoard ==
    /\ pc = "board"
    /\ bi <= Len(boards)
    /\ ~IsClosed(boards[bi])
    /\ \E r \in ExportResponses(boards[bi].ShortURL) :
         /\ resp' = Returned("export", r)
         /\ log' = Append(log, Event("GET", "export", boards[bi].ShortURL,
                                     r.k # "transport"))
         /\ IF r.k # "http"
            THEN Exit(1) /\ buf' = buf
            ELSE buf' = r.body /\ pc' = "save" /\ exit' = exit
    /\ UNCHANGED <<input, past, jar, auth, username, boards, bi, ti, urls, mi,
                   disk, clock>>

\* the disk with content at path
Put(path, content) ==
    [p \in DOMAIN files \cup {path} |-> IF p = path THEN content ELSE files[p]]

\* a check that never finds the file
ExistsNever(path) == FALSE

\* a check that takes a file for present only when it was written in full
ExistsInFull(path) ==
    \/ path \in DOMAIN files /\ files[path].part = "full"
    \/ path \in dirs

\* os.Stat(path) returns no error
Exists(path) == path \in DOMAIN files \/ path \in dirs

\* the name of the export file of a board, line 122-128
ExportFile(now, user, board) == ExportFileName(now, user, board.ID, board.Name)

\* lines 122-132: ioutil.WriteFile of the export; the clock is read here
SaveExport ==
    /\ pc = "save"
    /\ \E d \in Elapsed, k \in {"ok", "err"} :
         LET fn == ExportFile(clock + d, username, boards[bi]) IN
         /\ clock' = clock + d
         /\ resp' = Returned("WriteFile", Response(k, 0, <<>>))
         /\ log' = Append(log, [Event("WriteFile", "file", fn, k = "ok")
                                   EXCEPT !.at = clock + d])
         /\ IF k = "err"
            THEN Exit(1) /\ UNCHANGED <<files, ti>>
            ELSE /\ files' = Put(fn, [data |-> buf, part |-> "full"])
                 /\ ti' = 1
                 /\ pc' = "kind"
                 /\ exit' = exit
    /\ UNCHANGED <<input, past, jar, auth, username, boards, bi, buf, urls, mi, dirs>>

\* lines 134-138: the matches of the next kind
KindNext ==
    /\ pc = "kind"
    /\ ti <= Len(Kinds)
    /\ urls' = ExtractUrls(buf, Kinds[ti])
    /\ mi' = 1
    /\ pc' = "asset"
    /\ UNCHANGED <<input, past, exit, jar, auth, username, boards, bi, buf, ti,
                   disk, clock, resp, log>>

\* the loop of line 134 is over: the next board
KindsDone ==
    /\ pc = "kind"
    /\ ti > Len(Kinds)
    /\ bi' = bi + 1
    /\ pc' = "board"
    /\ UNCHANGED <<input, past, exit, jar, auth, username, boards, buf, ti, urls,
                   mi, disk, clock, resp, log>>

\* the loop of line 138 is over: the next kind
AssetsDone ==
    /\ pc = "asset"
    /\ mi > Len(urls)
    /\ ti' = ti + 1
    /\ pc' = "kind"
    /\ UNCHANGED <<input, past, exit, jar, auth, username, boards, bi, buf, urls,
                   mi, disk, clock, resp, log>>

\* lines 141-147: the local file of the match, when the URL parses
AssetFile(t, url) == Only({LocalFile(t, r.path) : r \in {ParseURL(url)}})

\* a download that makes the directory and the file without the request
AfterStatNoGet(exists) == IF exists THEN "asset" ELSE "mkdir"

\* lines 148-152: where main goes with the result of os.Stat
AfterStat(exists) == IF exists THEN "asset" ELSE "get"

\* lines 139-150: parse the URL, skip the asset when its file exists
AssetCheck ==
    /\ pc = "asset"
    /\ mi <= Len(urls)
    /\ IF ~ParseURL(urls[mi]).ok
       THEN /\ Exit(1)
            /\ resp' = Returned("Parse", Response("err", 0, <<>>))
            /\ mi' = mi
       ELSE /\ resp' = Returned("Stat", Response(
                         IF Exists(AssetFile(Kinds[ti], urls[mi])) THEN "ok" ELSE "err",
                         0, <<>>))
            /\ exit' = exit
            /\ IF Exists(AssetFile(Kinds[ti], urls[mi]))
               THEN mi' = mi + 1 /\ pc' = AfterStat(TRUE)
               ELSE mi' = mi /\ pc' = AfterStat(FALSE)
    /\ UNCHANGED <<input, past, jar, auth, username, boards, bi, buf, ti, urls,
                   disk, clock, log>>

AssetResponses == {Response("transport", 0, <<>>), Response("http", 200, <<>>)}

\* a download that sends the request again when it failed
AfterGetRetry(k) == IF k = "transport" THEN "get" ELSE "mkdir"

\* a download that goes on to the file after a request that failed
AfterGetNoCheck(k) == "mkdir"

\* lines 153-158: where main goes with the result of c.Get
AfterGet(k) == IF k = "transport" THEN "exit" ELSE "mkdir"

\* lines 152-156
AssetGet ==
    /\ pc = "get"
    /\ \E r \in AssetResponses :
         /\ resp' = Returned("asset", r)
         /\ log' = Append(log, Event("GET", "asset", urls[mi], r.k # "transport"))
         /\ IF AfterGet(r.k) = "exit"
            THEN Exit(1)
            ELSE pc' = AfterGet(r.k) /\ exit' = exit
    /\ UNCHANGED <<input, past, jar, auth, username, loop, disk, clock>>

\* line 158: os.MkdirAll, its error dropped
AssetMkdir ==
    /\ pc = "mkdir"
    /\ \E k \in IF Kinds[ti] \in dirs THEN {"ok"} ELSE {"ok", "err"} :
         /\ resp' = Returned("MkdirAll", Response(k, 0, <<>>))
         /\ dirs' = IF k = "ok" THEN dirs \cup {Kinds[ti]} ELSE dirs
         /\ log' = Append(log, Event("MkdirAll", "file", Kinds[ti], k = "ok"))
    /\ pc' = "create"
    /\ UNCHANGED <<input, past, exit, jar, auth, username, loop, files, clock>>

\* lines 159-164: os.Create fails when the directory is missing
AssetCreate ==
    /\ pc = "create"
    /\ \E k \in IF Kinds[ti] \in dirs THEN {"ok", "err"} ELSE {"err"} :
         /\ resp' = Returned("Create", Response(k, 0, <<>>))
         /\ IF k = "err"
            THEN Exit(1) /\ files' = files
            ELSE /\ files' = Put(AssetFile(Kinds[ti], urls[mi]),
                                 [data |-> urls[mi], part |-> "empty"])
                 /\ pc' = "copy"
                 /\ exit' = exit
         /\ log' = Append(log, Event("Create", "file",
                                     AssetFile(Kinds[ti], urls[mi]), k = "ok"))
    /\ UNCHANGED <<input, past, jar, auth, username, loop, dirs, clock>>

\* a copy whose error is dropped, as that of line 158 is
AfterCopyNoCheck(k) == "asset"

\* lines 168-172: where main goes with the result of io.Copy
AfterCopy(k) == IF k = "err" THEN "exit" ELSE "asset"

\* lines 166-172: io.Copy of the response body to the file
AssetCopy ==
    /\ pc = "copy"
    /\ \E k \in {"ok", "err"} :
         /\ resp' = Returned("Copy", Response(k, 0, <<>>))
         /\ files' = Put(AssetFile(Kinds[ti], urls[mi]),
                         [data |-> urls[mi],
                          part |-> IF k = "ok" THEN "full" ELSE "partial"])
         /\ IF AfterCopy(k) = "exit"
            THEN Exit(1) /\ mi' = mi
            ELSE mi' = mi + 1 /\ pc' = "asset" /\ exit' = exit
         /\ log' = Append(log, Event("Copy", "file",
                                     AssetFile(Kinds[ti], urls[mi]), k = "ok"))
    /\ UNCHANGED <<input, past, jar, auth, username, boards, bi, buf, ti, urls,
                   dirs, clock>>

(***************************************************************************)
(* The program is run again, on the disk the last run left.                *)
(***************************************************************************)
Kept(e) == e.op \in {"WriteFile", "Create", "Copy"} \/ e.what = "asset"

Rerun ==
    /\ pc = "exit"
    /\ run < MaxRuns
    /\ run' = run + 1
    /\ exits' = Append(exits, exit)
    /\ hist' = hist \o SelectSeq(log, Kept)
    /\ pc' = "start"
    /\ exit' = -1
    /\ jar' = {}
    /\ token' = <<>>
    /\ authentication' = <<>>
    /\ username' = <<>>
    /\ boards' = <<>>
    /\ bi' = 0
    /\ buf' = <<>>
    /\ ti' = 0
    /\ urls' = <<>>
    /\ mi' = 0
    /\ resp' = NoResult
    /\ log' = <<>>
    /\ UNCHANGED <<input, disk, clock>>

Login ==
    \/ FetchToken
    \/ Authenticate
    \/ AuthenticateTotp
    \/ UpdateSession

Backup ==
    \/ Start
    \/ QueryUsername
    \/ QueryBoards
    \/ BoardsDone
    \/ SkipClosed
    \/ ExportBoard
    \/ SaveExport
    \/ KindNext
    \/ KindsDone
    \/ AssetsDone
    \/ AssetCheck
    \/ AssetGet
    \/ AssetMkdir
    \/ AssetCreate
    \/ AssetCopy

\* one run of the program
Next == Login \/ Backup
Spec == Init /\ [][Next]_vars

\* One run in which main takes its next step as long as it has one: every
\* call returns, and main is the only goroutine.
SpecLive == Init /\ [][Next]_vars /\ WF_vars(Next)

\* Runs one after the other on the same disk, logging in with the token
\* cookie: the login with credentials does not touch the disk.
InitRuns == Init /\ Len(args) = 1 /\ Len(world) <= MaxRunBoards
NextRuns == Backup \/ Rerun
SpecRuns == InitRuns /\ [][NextRuns]_vars

(***************************************************************************)
(* What the claims speak of.                                               *)
(***************************************************************************)
\* the events of all runs that touch assets and files, and of this run
AllEvents == hist \o log

Requests(l) == SelectSeq(l, LAMBDA e : e.op \in {"GET", "POST"})
AuthRequests == SelectSeq(log, LAMBDA e : e.what = "auth")
ExportWrites(l) == SelectSeq(l, LAMBDA e : e.op = "WriteFile" /\ e.ok)

Last(l) == l[Len(l)]
Range(l) == {l[i] : i \in 1..Len(l)}

\* the response carries the second-factor-required signal
SignalsSecondFactor(r) ==
    /\ r.what = "auth"
    /\ r.k = "http"
    /\ r.body.ok
    /\ Contains(r.body.val.error, <<"T", "W", "O", "_", "F", "A", "C", "T", "O", "R", "_", "M",
                "I", "S", "S", "I", "N", "G">>)

\* the board of the pool behind a decoded board
PoolBoard(board) == CHOOSE b \in BoardPool : b.shortURL = board.ShortURL

\* the asset URLs an export holds, by the model's extraction
FoundUrls(b) ==
    UNION {Range(ExtractUrls(ExportOf(b.shortURL), Kinds[t])) : t \in 1..Len(Kinds)}

\* the well-formed URLs of a kind among the fields of an export, in order
WellFormed(fs, t) ==
    LET own == SelectSeq(fs, LAMBDA f : f.host = (IF t = 1 THEN "att" ELSE "bg"))
    IN [j \in 1..Len(own) |-> FieldUrl(own[j])]

AllowedNameChars == Alnum \cup {"_", ")", "(", "-"}
KeepAllowed(name) == SelectSeq(name, LAMBDA c : c \in AllowedNameChars)

IsSuffix(suf, s) ==
    Len(suf) <= Len(s) /\ SubSeq(s, Len(s) - Len(suf) + 1, Len(s)) = suf

\* the end of the name of every export file of a board
ExportSuffix(user, board) ==
    <<"_">> \o user \o <<"_">> \o board.ID \o <<"_">> \o KeepAllowed(board.Name)
    \o <<".", "j", "s", "o", "n">>

(***************************************************************************)
(* C1.  Starting with no asset file on disk, two complete runs against the *)
(* same export issue, over both runs, exactly one asset GET for each       *)
(* unique asset URL found in the export, and the second run issues no      *)
(* asset GET for a URL whose file exists.  (The original claim: the code   *)
(* keys the skip on the local file, and two URLs may share it.)            *)
(***************************************************************************)
AssetGets(l, u) == Len(SelectSeq(l, LAMBDA e : e.what = "asset" /\ e.arg = u))

C1_OneGetPerAssetUrl ==
    (run = 2 /\ exits = <<0>> /\ exit = 0) =>
        /\ \A i \in 1..Len(world) :
             ~world[i].closed =>
                 \A u \in FoundUrls(world[i]) : AssetGets(AllEvents, u) = 1
        /\ \A e \in Range(log) : e.what # "asset"

\* nothing was sent or written for a closed board
ClosedUntouched ==
    /\ \A e \in Range(log) : e.bi > 0 => ~boards[e.bi].Closed
    /\ \A i \in 1..Len(boards) :
         boards[i].Closed =>
             /\ \A e \in Range(log) :
                  e.what = "export" => e.arg # boards[i].ShortURL
             /\ \A p \in DOMAIN files :
                  ~IsSuffix(ExportSuffix(username, boards[i]), p)
             /\ \A u \in FoundUrls(PoolBoard(boards[i])) :
                  (\A j \in 1..Len(boards) :
                       ~boards[j].Closed => u \notin FoundUrls(PoolBoard(boards[j])))
                  => AssetGets(log, u) = 0
    /\ pc \in {"save", "kind", "asset", "get", "mkdir", "create", "copy"}
         => ~boards[bi].Closed

\* at a closed board the loop only moves on
ClosedStep ==
    (pc = "board" /\ bi <= Len(boards) /\ boards[bi].Closed) =>
        /\ bi' = bi + 1
        /\ pc' = "board"
        /\ exit' = -1
        /\ UNCHANGED <<log, files, dirs>>

(***************************************************************************)
(* C2.  A closed board gets no export GET, no export file and no asset     *)
(* GET, and the loop goes on to the next board without an error.           *)
(***************************************************************************)
C2_ClosedBoardsSkipped == []ClosedUntouched /\ [][ClosedStep]_vars

\* a run that skipped a closed board and backed up the board after it
C2_Witness ==
    /\ exit = 0
    /\ \E i \in 1..Len(boards) :
         /\ boards[i].Closed
         /\ i < Len(boards)
         /\ \E e \in Range(log) : e.what = "export" /\ e.bi = i + 1

(***************************************************************************)
(* C3.  With credentials and no TOTP secret, a first authentication        *)
(* response that signals the second factor ends the run with exit code 1,  *)
(* and that request is the last one: the login page and the one            *)
(* authentication POST are all the run has sent.                           *)
(***************************************************************************)
C3_SecondFactorWithoutSecret ==
    (Len(args) \in {2, 3} /\ Totp = "" /\ SignalsSecondFactor(resp)) =>
        /\ pc = "exit"
        /\ exit = 1
        /\ Len(log) = 2
        /\ log[1].what = "login"
        /\ log[2].what = "auth"

C3_Witness ==
    Len(args) \in {2, 3} /\ Totp = "" /\ SignalsSecondFactor(resp) /\ exit = 1

\* the authentication requests sent so far, and where main stands after them
AuthRequestsInOrder ==
    /\ Len(AuthRequests) <= 2
    /\ Totp # "" =>
         /\ Len(AuthRequests) >= 1 => AuthRequests[1].arg.totp = <<>>
         /\ Len(AuthRequests) = 2 =>
              AuthRequests[2].arg.totp = TotpNow(Totp, AuthRequests[2].at)
         /\ (resp.what = "auth" /\ Len(AuthRequests) = 1) =>
              (SignalsSecondFactor(resp) <=> pc = "authenticate2")
         /\ (SignalsSecondFactor(resp) /\ Len(AuthRequests) = 2) =>
              (pc = "exit" /\ exit = 1)

\* a second request is sent only on the signal, and nothing comes between
SecondOnlyOnSignal ==
    (Len(AuthRequests') > Len(AuthRequests) /\ Len(AuthRequests) >= 1) =>
        /\ Totp # ""
        /\ SignalsSecondFactor(resp)
        /\ Last(log).what = "auth"
        /\ Len(AuthRequests) = 1

(***************************************************************************)
(* C4.  With a TOTP secret the first authentication request carries no     *)
(* code; a second one is sent if and only if the first response signals    *)
(* the second factor, and it carries a time-based code; no run sends more  *)
(* than two, and the signal on the second is fatal.                        *)
(***************************************************************************)
C4_SecondFactorFlow == []AuthRequestsInOrder /\ [][SecondOnlyOnSignal]_vars

\* a run that logged in with the second request
C4_Witness ==
    /\ Totp # ""
    /\ Len(AuthRequests) = 2
    /\ AuthRequests[2].arg.totp # <<>>
    /\ exit = 0

(***************************************************************************)
(* C5.  A request that fails in transport (or whose body cannot be read)   *)
(* is the last call of the run: the run ends with exit code 1, and no      *)
(* request and no file write follows it.                                   *)
(***************************************************************************)
C5_TransportFailureIsFatal ==
    /\ resp.k \in {"transport", "read"} =>
         /\ pc = "exit"
         /\ exit = 1
         /\ Last(log).what = resp.what
    /\ \A i \in 1..Len(log) :
         (log[i].op \in {"GET", "POST"} /\ ~log[i].ok) =>
             (i = Len(log) /\ exit = 1)

\* the download of an asset failed after files had been written
C5_Witness ==
    /\ resp.k = "transport"
    /\ resp.what = "asset"
    /\ exit = 1
    /\ \E e \in Range(log) : e.op = "Copy" /\ e.ok

(***************************************************************************)
(* C6.  The original claim: the export files two runs write for the same   *)
(* board never have the same name.                                         *)
(***************************************************************************)
C6_NeverSameName ==
    \A e1, e2 \in Range(ExportWrites(AllEvents)) :
        (e1.run # e2.run /\ e1.bi = e2.bi) => e1.arg # e2.arg

(***************************************************************************)
(* C6, amended.  The export files two runs write for the same board have   *)
(* the same name exactly when the two writes fall into the same minute of  *)
(* the clock; then the later write replaces the file of the earlier.       *)
(***************************************************************************)
C6_SameNameIffSameMinute ==
    /\ \A e1, e2 \in Range(ExportWrites(AllEvents)) :
         (e1.run # e2.run /\ e1.bi = e2.bi) =>
             (e1.arg = e2.arg <=> e1.at \div 60 = e2.at \div 60)
    /\ \A e \in Range(ExportWrites(AllEvents)) : e.arg \in DOMAIN files

\* two runs wrote the same board in different minutes: two files
C6_Witness ==
    \E e1, e2 \in Range(ExportWrites(AllEvents)) :
        /\ e1.run # e2.run
        /\ e1.bi = e2.bi
        /\ e1.at \div 60 # e2.at \div 60
        /\ e1.arg # e2.arg
        /\ {e1.arg, e2.arg} \subseteq DOMAIN files

(***************************************************************************)
(* C7.  A username or boards response with a status other than 200 ends    *)
(* the run with exit code 1 before any board is exported, whatever its     *)
(* body.  (The original claim: getBoards does not look at the status.)     *)
(***************************************************************************)
C7_StatusIsFatal ==
    (resp.what \in {"username", "boards"} /\ resp.k = "http" /\ resp.status # 200) =>
        (pc = "exit" /\ exit = 1)

(***************************************************************************)
(* C8.  With the token cookie nothing is sent to log in and logging in     *)
(* cannot fail: the first request of the run is the username query, and a  *)
(* rejected cookie ends the run there with exit code 1.                    *)
(***************************************************************************)
C8_CookieLogin ==
    Len(args) = 1 =>
        /\ \A e \in Range(log) : e.what \notin {"login", "auth", "session"}
        /\ log # <<>> => log[1].what = "username"
        /\ exit = 1 => log # <<>>
        /\ pc = "getUsername" =>
             jar = {[name |-> "token", value |-> args[1]]}
        /\ (resp.what = "username" /\ resp.k = "http" /\ resp.status # 200) =>
             (pc = "exit" /\ exit = 1 /\ Len(log) = 1)

C8_Witness ==
    /\ Len(args) = 1
    /\ resp.what = "username"
    /\ resp.k = "http"
    /\ resp.status = 401
    /\ exit = 1

(***************************************************************************)
(* C9.  The matches of a kind are exactly the well-formed URLs of that     *)
(* kind in the export, in document order, duplicates kept, and no URL of   *)
(* another host.  (The original claim: the dots of the pattern match any   *)
(* character, so a URL of another host is returned.)                       *)
(***************************************************************************)
C9_ExactlyTheWellFormedUrls ==
    pc \in {"asset", "get", "mkdir", "create", "copy"} =>
        urls = WellFormed(PoolBoard(boards[bi]).doc, ti)

(***************************************************************************)
(* C10.  The name of an export file is a function of the time, the         *)
(* username, the board id and the board name: trello_<time>_<username>_    *)
(* <id>_<name>.json, with the name reduced to its characters of            *)
(* [a-zA-Z0-9_)(-] in their order; My/Board:2 gives MyBoard2.              *)
(***************************************************************************)
C10_ExportFileName ==
    \A e \in Range(log) :
        e.op = "WriteFile" =>
            /\ e.arg = <<"t", "r", "e", "l", "l", "o", "_", "2", "0", "0", "6", "-", "0", "1",
                        "-", "0", "2", "_", "1", "5", "-">> \o TwoDigits((e.at \div 60) % 60)
                       \o ExportSuffix(username, boards[e.bi])
            /\ boards[e.bi].Name = <<"M", "y", "/", "B", "o", "a", "r", "d", ":", "2">> =>
                 IsSuffix(<<"_", "M", "y", "B", "o", "a", "r", "d", "2", ".", "j", "s", "o",
                             "n">>, e.arg)

C10_Witness ==
    \E e \in Range(log) :
        /\ e.op = "WriteFile"
        /\ e.ok
        /\ boards[e.bi].Name = <<"M", "y", "/", "B", "o", "a", "r", "d", ":", "2">>
        /\ e.arg \in DOMAIN files

\* the calls of this run of one kind, and their places in the log
Places(what) == {i \in 1..Len(log) : log[i].what = what}

\* the response is a login page that holds the token as its dsc attribute
PageHolds(r, tok) ==
    /\ r.what = "login"
    /\ r.k = "http"
    /\ tok # <<>>
    /\ \A i \in 1..Len(tok) : tok[i] \in Alnum
    /\ Contains(r.body, <<"d", "s", "c", "=", "\"">> \o tok \o <<"\"">>)

\* the response is an authentication response with a code and no error
CodeReturned(r) ==
    /\ r.what = "auth"
    /\ r.k = "http"
    /\ r.body.ok
    /\ r.body.val.error = <<>>

\* the requests of the handshake sent so far stand in its order
HandshakeInOrder ==
    Len(args) \in {2, 3} =>
        /\ Cardinality(Places("login")) <= 1
        /\ Cardinality(Places("session")) <= 1
        /\ \A i \in Places("login") : i = 1
        /\ \A i \in Places("auth") :
             /\ i \in {2, 3}
             /\ log[1].what = "login" /\ log[1].ok
             /\ token # <<>>
             /\ i = 3 => log[2].what = "auth"
        /\ \A i \in Places("session") :
             /\ i > 2
             /\ log[i - 1].what = "auth" /\ log[i - 1].ok
             /\ log[i].arg.dsc = token
             /\ log[i].arg.authentication = authentication
        /\ \A i \in Places("username") \cup Places("boards") :
             \E j \in Places("session") : j < i /\ log[j].ok
        /\ pc \in {"getUsername", "getBoards", "board", "save", "kind", "asset",
                   "get", "mkdir", "create", "copy"}
             => \E j \in Places("session") : log[j].ok

\* each request of the handshake follows the answer it needs
HandshakeStep ==
    (Len(args) \in {2, 3} /\ Len(log') = Len(log) + 1) =>
        /\ Last(log').what = "auth" =>
             \/ PageHolds(resp, token)
             \/ /\ resp.what = "auth"
                /\ Len(log) = 2
                /\ log[1].what = "login" /\ log[1].ok
                /\ token # <<>>
        /\ Last(log').what = "session" =>
             /\ CodeReturned(resp)
             /\ Last(log').arg = [authentication |-> resp.body.val.code,
                                  dsc |-> token]
             /\ token # <<>>
        /\ Last(log').what = "username" =>
             resp.what = "session" /\ resp.k = "http"
        /\ Last(log').what = "login" => log = <<>>

(***************************************************************************)
(* C11.  With credentials the handshake runs Start, TokenFetched,          *)
(* Authenticated, SessionEstablished in this order: the authentication     *)
(* POST follows the extraction of a login token, the session POST follows  *)
(* an authentication request that returned a code without error and        *)
(* carries that code and the token, and no account query is sent before    *)
(* the session POST returned.                                              *)
(***************************************************************************)
C11_HandshakeInOrder == []HandshakeInOrder /\ [][HandshakeStep]_vars

\* a run with credentials that got through the handshake to the boards
C11_Witness ==
    /\ Len(args) \in {2, 3}
    /\ pc = "getBoards"
    /\ Len(log) >= 4
    /\ log[1].what = "login"
    /\ log[Len(log) - 1].what = "session"
    /\ Last(log).what = "username"

\* the calls of this run made for the board at place b of the list
OfBoard(b) == SelectSeq(log, LAMBDA e : e.bi = b)

\* 1 for the URL of an attachment, 2 for the URL of a background
UrlKind(u) == IF Contains(u, <<":", "/", "/", "t", "r", "e", "l", "l", "o", "-", "b", "a", "c",
            "k", "g", "r", "o", "u", "n", "d", "s">>) THEN 2 ELSE 1

\* where main stands: the board, the kind and the match it is at
Position ==
    <<bi,
      IF pc \in {"board", "save"} THEN 0 ELSE ti,
      IF pc \in {"board", "save", "kind"} THEN 0 ELSE mi>>

Before(p, q) ==
    \/ p[1] < q[1]
    \/ p[1] = q[1] /\ p[2] < q[2]
    \/ p[1] = q[1] /\ p[2] = q[2] /\ p[3] <= q[3]

\* the calls made so far stand in the order of the steps
StepsInOrder ==
    /\ Cardinality(Places("username")) <= 1
    /\ Cardinality(Places("boards")) <= 1
    /\ \A i \in Places("username") :
         \A j \in 1..(i - 1) : log[j].what \in {"login", "auth", "session"}
    /\ \A i \in Places("boards") : i > 1 /\ log[i - 1].what = "username"
    /\ \A i \in 1..Len(log) :
         /\ log[i].bi > 0 <=> \E j \in Places("boards") : j < i
         /\ log[i].bi <= Len(boards)
         /\ \A j \in 1..(i - 1) : log[j].bi <= log[i].bi
    /\ \A b \in 1..Len(boards) :
         LET s == OfBoard(b) IN
         /\ Len(s) >= 1 => s[1].what = "export" /\ s[1].arg = boards[b].ShortURL
         /\ Len(s) >= 2 => s[1].ok /\ s[2].op = "WriteFile"
         /\ \A k \in 3..Len(s) :
              /\ s[2].ok
              /\ s[k].what = "asset" \/ s[k].op \in {"MkdirAll", "Create", "Copy"}
         /\ \A k, l \in 1..Len(s) :
              (k < l /\ s[k].what = "asset" /\ s[l].what = "asset")
                  => UrlKind(s[k].arg) <= UrlKind(s[l].arg)
         /\ \A k, l \in 1..Len(s) :
              (k < l /\ s[k].op = "MkdirAll" /\ s[l].op = "MkdirAll")
                  => ~(s[k].arg = <<"b", "a", "c", "k", "g", "r", "o", "u", "n", "d",
                              "s">> /\ s[l].arg = <<"a", "t", "t", "a", "c", "h", "m", "e",
                              "n", "t", "s">>)
         /\ (b < bi /\ ~boards[b].Closed) => Len(s) >= 2 /\ s[2].ok
    /\ pc \in {"get", "mkdir", "create", "copy"} =>
         /\ ti \in 1..Len(Kinds)
         /\ mi \in 1..Len(urls)
         /\ UrlKind(urls[mi]) = ti

\* main only moves forward: board by board, kind by kind, match by match
StepsForward ==
    pc' # "exit" =>
        /\ Before(Position, Position')
        /\ bi' \in {bi, bi + 1}
        /\ bi' = bi + 1 =>
             \/ pc = "getBoards"
             \/ pc = "board" /\ boards[bi].Closed
             \/ pc = "kind" /\ ti > Len(Kinds)
        /\ (bi' = bi /\ Position'[2] # Position[2]) =>
             Position'[2] = Position[2] + 1
        /\ (bi' = bi /\ Position'[2] = Position[2] /\ Position'[3] # Position[3]) =>
             Position'[3] = Position[3] + 1

(***************************************************************************)
(* C12.  The steps of a run come once and in one order: authentication,    *)
(* the username query, the boards query, then the boards one at a time in  *)
(* list order; for an open board the export is fetched and saved before    *)
(* any asset GET of the board, the attachments are handled before the      *)
(* backgrounds, and a later board starts after the last asset of the       *)
(* board before it.                                                        *)
(***************************************************************************)
C12_StepsInOrder == []StepsInOrder /\ [][StepsForward]_vars

\* a complete run over two open boards, with both kinds fetched for the first
\* and the export of the second saved after them
C12_Witness ==
    /\ exit = 0
    /\ Len(boards) = 2
    /\ \E e1, e2 \in Range(OfBoard(1)) :
         /\ e1.what = "asset" /\ UrlKind(e1.arg) = 1
         /\ e2.what = "asset" /\ UrlKind(e2.arg) = 2
    /\ \E e \in Range(OfBoard(2)) : e.op = "WriteFile" /\ e.ok

\* the places of the stream copies that failed, in the events of all runs
FailedCopies == {i \in 1..Len(AllEvents) : AllEvents[i].op = "Copy" /\ ~AllEvents[i].ok}

\* the asset GET whose body the copy at place i streamed
GetOf(i) ==
    AllEvents[CHOOSE j \in 1..(i - 1) :
                 /\ AllEvents[j].what = "asset"
                 /\ \A k \in (j + 1)..(i - 1) : AllEvents[k].what # "asset"]

(***************************************************************************)
(* C13.  A run that ends on a failed stream copy of an asset leaves a file *)
(* at the local path of the asset; every later run takes the asset for     *)
(* downloaded: it sends no GET for it and does not touch the (possibly     *)
(* truncated) file.                                                        *)
(***************************************************************************)
C13_FailedCopyIsKept ==
    \A i \in FailedCopies :
        /\ AllEvents[i].arg \in DOMAIN files
        /\ files[AllEvents[i].arg] = [data |-> GetOf(i).arg, part |-> "partial"]
        /\ GetOf(i).run = AllEvents[i].run
        /\ \A k \in (i + 1)..Len(AllEvents) :
             /\ AllEvents[k].run > AllEvents[i].run
             /\ AllEvents[k].what = "asset" => AllEvents[k].arg # GetOf(i).arg
             /\ AllEvents[k].op \in {"Create", "Copy"} =>
                  AllEvents[k].arg # AllEvents[i].arg
        /\ (run > AllEvents[i].run /\ pc = "get") =>
             AssetFile(Kinds[ti], urls[mi]) # AllEvents[i].arg

\* the first run ended on a failed copy, the second went past that asset
\* and fetched another one
C13_Witness ==
    /\ run = 2
    /\ exits = <<1>>
    /\ exit = 0
    /\ \E i \in FailedCopies : AllEvents[i].run = 1
    /\ \E e \in Range(log) : e.what = "asset"

(***************************************************************************)
(* C14.  Every answer to the session POST that is not a transport error    *)
(* counts as success: whatever its status and body, the run goes on to     *)
(* the username query; a transport error of that POST ends the run.        *)
(***************************************************************************)
C14_SessionAnswerIsSuccess ==
    /\ resp.what = "session" =>
         IF resp.k = "transport"
         THEN pc = "exit" /\ exit = 1
         ELSE pc = "getUsername" /\ exit = -1
    /\ \A i \in Places("session") :
         IF log[i].ok
         THEN /\ i = Len(log) => pc = "getUsername"
              /\ i < Len(log) => log[i + 1].what = "username"
         ELSE i = Len(log) /\ pc = "exit" /\ exit = 1

\* the session POST was answered with status 500 and the run goes on
C14_Witness ==
    /\ resp.what = "session"
    /\ resp.k = "http"
    /\ resp.status = 500
    /\ pc = "getUsername"

\* the calls of a download that failed on the disk, by their places in the log
FailedOnDisk(op) == {i \in 1..Len(log) : log[i].op = op /\ ~log[i].ok}

\* a failed os.Create or io.Copy is the last call of the run; a failed
\* os.MkdirAll is followed by the os.Create that fails for it, and no more
DiskErrorsEndTheRun ==
    /\ \A i \in FailedOnDisk("Create") \cup FailedOnDisk("Copy") :
         i = Len(log) /\ pc = "exit" /\ exit = 1
    /\ \A i \in FailedOnDisk("MkdirAll") :
         IF i = Len(log)
         THEN pc = "create" /\ log[i].arg \notin dirs
         ELSE /\ i + 1 = Len(log)
              /\ log[i + 1].op = "Create"
              /\ ~log[i + 1].ok
              /\ pc = "exit"
              /\ exit = 1
    /\ (resp.what \in {"Create", "Copy"} /\ resp.k = "err") =>
         (pc = "exit" /\ exit = 1)
    /\ exit = 0 =>
         FailedOnDisk("MkdirAll") \cup FailedOnDisk("Create")
             \cup FailedOnDisk("Copy") = {}

\* after a failed os.MkdirAll the only step is the exit, at the same asset
MkdirErrorStep ==
    (resp.what = "MkdirAll" /\ resp.k = "err") =>
        /\ pc' = "exit"
        /\ exit' = 1
        /\ UNCHANGED <<bi, ti, mi, files, dirs>>

(***************************************************************************)
(* C15.  In the download of an asset an error of the directory creation,   *)
(* of the file creation and of the stream copy each end the run: it exits  *)
(* with a code other than 0 and goes on to no other asset or board.  (The  *)
(* error of os.MkdirAll itself is dropped; the run ends on the os.Create   *)
(* that follows, which fails in the missing directory.)                    *)
(***************************************************************************)
C15_DiskErrorsAreFatal == []DiskErrorsEndTheRun /\ [][MkdirErrorStep]_vars

\* a run that ended after the directory could not be made
C15_Witness ==
    /\ exit = 1
    /\ FailedOnDisk("MkdirAll") # {}
    /\ resp.what = "Create"

(***************************************************************************)
(* C16.  The original claim: in a download the kind directory is made, if  *)
(* absent, before the GET is sent: when the GET has returned the directory *)
(* is there, or the call before the GET was the os.MkdirAll of the kind.   *)
(* (In the code the GET of line 152 comes before os.MkdirAll, line 158.)   *)
(***************************************************************************)
C16_MkdirBeforeGet ==
    (pc = "mkdir" /\ resp.what = "asset") =>
        \/ Kinds[ti] \in dirs
        \/ /\ Len(log) >= 2
           /\ log[Len(log) - 1].op = "MkdirAll"
           /\ log[Len(log) - 1].arg = Kinds[ti]

(***************************************************************************)
(* C16, amended.  A download sends the GET first, then makes the kind      *)
(* directory, then creates the file and streams the body to it: each call  *)
(* follows the one before it, and a directory is on disk only after a GET  *)
(* of its kind was answered.                                               *)
(***************************************************************************)
C16_GetBeforeMkdir ==
    /\ \A i \in 1..Len(log) :
         /\ log[i].op = "MkdirAll" =>
              i > 1 /\ log[i - 1].what = "asset" /\ log[i - 1].ok
         /\ log[i].op = "Create" => i > 2 /\ log[i - 1].op = "MkdirAll"
         /\ log[i].op = "Copy" =>
              /\ i > 3
              /\ log[i - 1].op = "Create"
              /\ log[i - 1].ok
              /\ log[i - 1].arg = log[i].arg
         /\ (log[i].what = "asset" /\ log[i].ok /\ i < Len(log)) =>
              log[i + 1].op = "MkdirAll" /\ log[i + 1].arg = Kinds[UrlKind(log[i].arg)]
         /\ (log[i].what = "asset" /\ ~log[i].ok) => i = Len(log)
    /\ \A d \in dirs :
         \E i \in 2..Len(log) :
             /\ log[i].op = "MkdirAll" /\ log[i].ok /\ log[i].arg = d
             /\ log[i - 1].what = "asset" /\ log[i - 1].ok
    /\ pc = "get" => (Kinds[ti] \in dirs <=>
                         \E e \in Range(log) : e.op = "MkdirAll" /\ e.ok /\ e.arg = Kinds[ti])

\* the first download of a run, streamed to its file
C16_Witness ==
    /\ Len(log) >= 4
    /\ Last(log).op = "Copy"
    /\ Last(log).ok
    /\ log[Len(log) - 3].what = "asset"
    /\ Cardinality({i \in 1..Len(log) : log[i].what = "asset"}) = 1
    /\ Last(log).arg \in DOMAIN files

\* the places in the log of the files that were written in full
Written(op) == {i \in 1..Len(log) : log[i].op = op /\ log[i].ok}

\* the asset GET whose body the copy at place i of the log streamed
LogGetOf(i) ==
    log[CHOOSE j \in 1..(i - 1) :
            /\ log[j].what = "asset"
            /\ \A k \in (j + 1)..(i - 1) : log[k].what # "asset"]

(***************************************************************************)
(* C17.  When a run fails at board k, the export files and the asset files *)
(* written for the boards before k are on disk with the content they were  *)
(* written with, and the run ends with a code other than 0, short of the   *)
(* success message of line 177.                                            *)
(***************************************************************************)
C17_EarlierBoardsKept ==
    (pc = "exit" /\ exit # 0 /\ bi >= 1) =>
        /\ exit = 1
        /\ bi <= Len(boards)
        /\ \A i \in Written("WriteFile") :
             log[i].bi < bi =>
                 /\ log[i].arg \in DOMAIN files
                 /\ files[log[i].arg] =
                        [data |-> ExportOf(boards[log[i].bi].ShortURL), part |-> "full"]
        /\ \A i \in Written("Copy") :
             log[i].bi < bi =>
                 /\ log[i].arg \in DOMAIN files
                 /\ files[log[i].arg] = [data |-> LogGetOf(i).arg, part |-> "full"]
        /\ \A b \in 1..(bi - 1) :
             ~boards[b].Closed => \E i \in Written("WriteFile") : log[i].bi = b

\* the second board failed after the first had an export and an asset saved
C17_Witness ==
    /\ pc = "exit"
    /\ exit = 1
    /\ bi = 2
    /\ \E i \in Written("WriteFile") : log[i].bi = 1
    /\ \E i \in Written("Copy") : log[i].bi = 1 /\ log[i].arg \in DOMAIN files
    /\ \E e \in Range(log) : e.bi = 2 /\ ~e.ok

\* the asset URLs the code extracts from the export of a board, by kind
Extracted(board, t) == Range(ExtractUrls(ExportOf(board.ShortURL), Kinds[t]))

(***************************************************************************)
(* C18.  A run ends with exit code 0 only if every open board of the list  *)
(* had its export file written in this run and every asset URL extracted   *)
(* from that export has a file at its local path at the end; and no call   *)
(* of a run that ends with 0 returned an error.                            *)
(***************************************************************************)
C18_ExitZeroMeansComplete ==
    exit = 0 =>
        /\ pc = "exit"
        /\ bi = Len(boards) + 1
        /\ Len(boards) = Len(world)
        /\ \A b \in 1..Len(boards) :
             ~boards[b].Closed =>
                 /\ \E i \in Written("WriteFile") :
                        /\ log[i].bi = b
                        /\ log[i].arg \in DOMAIN files
                        /\ files[log[i].arg].part = "full"
                 /\ \A t \in 1..Len(Kinds) :
                      \A u \in Extracted(boards[b], t) :
                          /\ ParseURL(u).ok
                          /\ AssetFile(Kinds[t], u) \in DOMAIN files
        /\ \A e \in Range(log) : e.ok
        /\ resp.k \notin {"transport", "read"}
        /\ resp.k = "err" => resp.what = "Stat"

\* a complete run that saved an export and downloaded an asset of it
C18_Witness ==
    /\ exit = 0
    /\ \E i \in Written("Copy") : log[i].arg \in DOMAIN files
    /\ \E b \in 1..Len(boards) :
         ~boards[b].Closed /\ Extracted(boards[b], 1) # {}

\* the places of the asset GETs that failed, in the events of all runs
FailedGets == {i \in 1..Len(AllEvents) : AllEvents[i].what = "asset" /\ ~AllEvents[i].ok}

\* the places of the asset GETs for a URL in the runs after the run r
LaterGets(u, r) ==
    {k \in 1..Len(AllEvents) :
        /\ AllEvents[k].what = "asset"
        /\ AllEvents[k].arg = u
        /\ AllEvents[k].run > r}

(***************************************************************************)
(* C19.  An asset GET that fails in transport ends the run with no file    *)
(* made at the local path of the asset: the asset does not count as        *)
(* downloaded, and a later run that gets as far sends the GET again.       *)
(***************************************************************************)
C19_FailedGetLeavesNoFile ==
    \A i \in FailedGets :
        LET e == AllEvents[i]
            fn == AssetFile(Kinds[UrlKind(e.arg)], e.arg)
        IN /\ \A k \in (i + 1)..Len(AllEvents) : AllEvents[k].run > e.run
           /\ e.run = run => pc = "exit" /\ exit = 1
           /\ LaterGets(e.arg, e.run) = {} => fn \notin DOMAIN files
           /\ (run > e.run /\ pc = "asset" /\ mi <= Len(urls) /\ LaterGets(e.arg, e.run) = {}) =>
                (urls[mi] = e.arg => ~Exists(AssetFile(Kinds[ti], urls[mi])))
           /\ (run > e.run /\ exit = 0) => LaterGets(e.arg, e.run) # {}

\* the second run sent the GET that failed in the first, and finished
C19_Witness ==
    /\ run = 2
    /\ exit = 0
    /\ \E i \in FailedGets :
         /\ AllEvents[i].run = 1
         /\ \E e \in Range(log) : e.what = "asset" /\ e.arg = AllEvents[i].arg /\ e.ok

\* the steps of main in their order, within one board, kind or match
Rank(p) ==
    CASE p = "start" -> 0
      [] p = "getLoginToken" -> 1
      [] p = "authenticate" -> 2
      [] p = "authenticate2" -> 3
      [] p = "updateSession" -> 4
      [] p = "getUsername" -> 5
      [] p = "getBoards" -> 6
      [] p = "board" -> 0
      [] p = "save" -> 1
      [] p = "kind" -> 0
      [] p = "asset" -> 0
      [] p = "get" -> 1
      [] p = "mkdir" -> 2
      [] p = "create" -> 3
      [] p = "copy" -> 4
      [] OTHER -> 0

\* where main stands, down to the step
Stage == <<Position[1], Position[2], Position[3], Rank(pc)>>

Earlier(p, q) ==
    \/ p[1] < q[1]
    \/ p[1] = q[1] /\ p[2] < q[2]
    \/ p[1] = q[1] /\ p[2] = q[2] /\ p[3] < q[3]
    \/ p[1] = q[1] /\ p[2] = q[2] /\ p[3] = q[3] /\ p[4] < q[4]

\* every step either ends the run or takes main to a later stage, and sends
\* at most one request or file system call; a run that has ended stays so
Advances ==
    /\ pc # "exit"
    /\ pc' # "exit" => Earlier(Stage, Stage')
    /\ pc' = "exit" => exit' \in {0, 1}
    /\ Len(log') \in {Len(log), Len(log) + 1}
    /\ bi' \in {bi, bi + 1}

\* no board and no match of a board is gone through twice
VisitedOnce ==
    /\ \A b \in 1..Len(boards) :
         Cardinality({i \in 1..Len(log) : log[i].what = "export" /\ log[i].bi = b}) <= 1
    /\ \A i, j \in 1..Len(log) :
         (i < j /\ log[i].op = log[j].op /\ log[i].what = log[j].what
          /\ log[i].what \in {"login", "session", "username", "boards", "export"})
             => log[i].bi < log[j].bi
    /\ \A b \in 1..Len(boards) :
         Len(SelectSeq(OfBoard(b), LAMBDA e : e.what = "asset")) <=
             Len(ExtractUrls(ExportOf(boards[b].ShortURL), Kinds[1]))
             + Len(ExtractUrls(ExportOf(boards[b].ShortURL), Kinds[2]))
    /\ \A i, j \in 1..Len(log) :
         (i < j /\ log[i].what = "asset" /\ log[j].what = "asset")
             => log[i].arg # log[j].arg
    /\ pc = "exit" <=> exit \in {0, 1}

(***************************************************************************)
(* C20.  When every network and file system call returns and the lists are *)
(* finite, every run ends, with exit code 0 or 1; no step is taken again   *)
(* and no board and no match is gone through more than once in a run.      *)
(***************************************************************************)
C20_RunTerminates ==
    /\ <>(pc = "exit" /\ exit \in {0, 1})
    /\ []VisitedOnce
    /\ [][Advances]_vars

\* a run that went through two boards and their assets to the end
C20_Witness ==
    /\ pc = "exit"
    /\ exit = 0
    /\ Len(boards) = 2
    /\ \E i \in Written("Copy") : log[i].bi = 1
    /\ \E i \in Written("WriteFile") : log[i].bi = 2

====
